---- MODULE Spec2Model ----
(***************************************************************************)
(* A model of src/model.py: the LLaMA-style decoder (ModelArgs, rotary     *)
(* table, grouped-query attention, causal mask, Transformer.forward), the  *)
(* data preparation and greedy generation around it.                       *)
(*                                                                         *)
(* Tensors are functions over 0-based index ranges, as in the source.      *)
(* Floating-point payloads (weights, activations, rotations) are symbolic  *)
(* terms that record which operands were combined; integer and shape       *)
(* arithmetic, slicing, broadcasting, reshaping and control flow are       *)
(* computed as the source computes them.                                   *)
(***************************************************************************)
EXTENDS Integers, Sequences, FiniteSets, TLC

VARIABLES
    args,    \* the ModelArgs instance, or None before construction
    ctor,    \* how ModelArgs construction ended: "none", "ok" or "error"
    model,   \* the Transformer instance, or None before construction
    out,     \* what the last Transformer.forward call did, or None
    ref,     \* a forward call remembered for comparison, or None
    gen,     \* the frame of generate_text_greedy, or None
    call,    \* input of the library function under check, or None
    ret      \* its result, or None

vars == <<args, ctor, model, out, ref, gen, call, ret>>

\* Python's None, for the variables and for record-valued optionals.
None == [is_none |-> TRUE]
\* An Optional[int] keyword argument: <<>> is None, <<n>> is n.
NoInt == <<>>
\* The two values a causal mask holds (floats, kept as their printed form).
NegInf == "-inf"
Zero == "0.0"

\* ---------------------------------------------------------------- bounds
MaxDim == 8          \* ModelArgs.dim ranges over 1..MaxDim
MaxHeads == 3        \* n_heads and n_kv_heads range over 1..MaxHeads
MaxMultipleOf == 3   \* multiple_of ranges over 1..MaxMultipleOf
MaxSeqLenArg == 2    \* ModelArgs.max_seq_len ranges over 1..MaxSeqLenArg
MaxLayers == 2       \* n_layers ranges over 1..MaxLayers
MaxSeq == 3          \* forward calls take 1..MaxSeq tokens per row
MaxStartPos == 4     \* start_pos ranges over 0..MaxStartPos
MaxTrainSteps == 1   \* optimizer steps taken
MaxPrompt == 2       \* generate_text_greedy prompts encode to 0..MaxPrompt tokens
MaxGenLength == 3    \* generate_text_greedy max_length ranges over 0..MaxGenLength
MaxRep == 3          \* repeat_kv is called with n_rep in 1..MaxRep
MaxDocs == 2         \* the corpus holds 1..MaxDocs rows of text
MaxDocLen == 2       \* a row of text tokenizes to 0..MaxDocLen ids
MaxBatchSize == 2    \* dataset.map hands over 1..MaxBatchSize rows per call
MaxChunk == 3        \* load_and_preprocess_data max_length ranges over 1..MaxChunk

Idx(n) == 0 .. (n - 1)
\* F applied to the value of v, with v evaluated once.
Bind(v, F(_)) == CHOOSE y \in {F(x) : x \in {v}} : TRUE
Max(a, b) == IF a >= b THEN a ELSE b
Min(a, b) == IF a <= b THEN a ELSE b

\* ------------------------------------------------------------ ModelArgs
\* ffn_dim_multiplier is a positive rational num/den (None: the default).
Multipliers == {None, [num |-> 1, den |-> 1], [num |-> 3, den |-> 2], [num |-> 1, den |-> 2]}

\* int(x) of a rational: truncation toward zero.
int(num, den) == IF num >= 0 THEN num \div den ELSE -((-num) \div den)

find_multiple(n, k) == IF n % k = 0 THEN n ELSE n + k - (n % k)

\* ModelArgs.__post_init__: fills the defaults and derives intermediate_size.
ModelArgs_post_init(a) ==
    LET kv == IF a.n_kv_heads = NoInt THEN a.n_heads ELSE a.n_kv_heads[1]
        m == IF a.ffn_dim_multiplier = None THEN [num |-> 4, den |-> 3]
             ELSE a.ffn_dim_multiplier
        size0 == int(2 * m.num * a.dim, m.den)
    IN [status |-> "ok",
        self |-> [dim |-> a.dim, n_layers |-> a.n_layers, n_heads |-> a.n_heads,
                  n_kv_heads |-> kv, multiple_of |-> a.multiple_of,
                  ffn_dim_multiplier |-> m, max_seq_len |-> a.max_seq_len,
                  intermediate_size |-> find_multiple(size0, a.multiple_of)]]

\* The keyword arguments a caller may pass to ModelArgs(...).
ArgsOf(dims, heads, kvs, mults, ks, msls, layers) ==
    {[dim |-> d, n_layers |-> l, n_heads |-> h, n_kv_heads |-> kv,
      multiple_of |-> k, ffn_dim_multiplier |-> m, max_seq_len |-> s] :
        d \in dims, l \in layers, h \in heads, kv \in kvs, m \in mults,
        k \in ks, s \in msls}

AllArgs ==
    {a \in ArgsOf(1 .. MaxDim, 1 .. MaxHeads, {NoInt} \cup {<<n>> : n \in 1 .. MaxHeads},
                  Multipliers, 1 .. MaxMultipleOf, {1}, {1}) :
        a.n_kv_heads = NoInt \/ a.n_kv_heads[1] <= a.n_heads}

\* The configurations the program runs forward passes with.
RunArgs ==
    ArgsOf({4}, {2}, {NoInt, <<1>>}, {None}, {2}, 1 .. MaxSeqLenArg, 1 .. MaxLayers)

\* Token batches [bsz, seqlen] over a two-word vocabulary.
Vocab == {0, 1}
TokensOf(B, S) == UNION {[1 .. b -> [1 .. n -> Vocab]] : b \in B, n \in S}
\* One batch of each length for the program's forward calls.
TokenInputs == {[b \in 1 .. 1 |-> [n \in 1 .. k |-> n % 2]] : k \in 1 .. MaxSeq}
ProbeTokens == {<<<<0, 1>>>>}
\* tokenizer.eos_token_id: as in GPT-2, the last id of the vocabulary.
eos_token_id == CHOOSE t \in Vocab : \A u \in Vocab : u <= t
\* tokenizer.encode(prompt) (line 341; GPT-2 adds no special token): any token
\* sequence of 0..MaxPrompt tokens, none for the empty prompt.
Prompts == UNION {[1 .. n -> Vocab] : n \in 0 .. MaxPrompt}
\* The models text is generated with.
GenArgs == ArgsOf({4}, {2}, {<<1>>}, {None}, {2}, {1, 2}, {1})
\* One model and a few calls, for comparing calls pairwise.
DetArgs == ArgsOf({4}, {2}, {<<1>>}, {None}, {2}, {1}, {2})
DetTokens == TokensOf({1}, {1, 2})
DetStartPos == {0, 1, 2}

\* ------------------------------------------------------- rotary table
\* freqs[i] = 1 / theta^(j/dim) for j = arange(0, dim, 2)[i], kept as the exponent.
arange_len(end, step) == IF end <= 0 THEN 0 ELSE (end + step - 1) \div step

\* precompute_freqs_cis: row t, column i holds polar(1, t * freqs[i]).
precompute_freqs_cis(dim, end) ==
    [shape |-> <<Max(end, 0), arange_len(dim, 2)>>,
     device |-> "cpu",
     at |-> [t \in Idx(end) |->
               [i \in Idx(arange_len(dim, 2)) |->
                  [abs |-> 1, pos |-> t, exp_num |-> 2 * i, exp_den |-> dim]]]]

\* ------------------------------------------------------- construction
\* FeedForward.__init__: the width of w1 and w3 (and the input width of w2).
FeedForward_init_unscaled(dim, hidden_dim, multiple_of) ==
    find_multiple(hidden_dim, multiple_of)

FeedForward_init(dim, hidden_dim, multiple_of) ==
    find_multiple(int(2 * hidden_dim, 3), multiple_of)

\* Attention.__init__
Attention_init(a) ==
    [n_kv_heads |-> a.n_kv_heads,
     n_heads_q |-> a.n_heads,
     n_rep |-> a.n_heads \div a.n_kv_heads,
     head_dim |-> a.dim \div a.n_heads]

\* TransformerBlock.__init__
TransformerBlock_init(layer_id, a) ==
    [layer_id |-> layer_id,
     attention |-> Attention_init(a),
     w13_width |-> FeedForward_init(a.dim, a.intermediate_size, a.multiple_of)]

\* Transformer.__init__
Transformer_init(a) ==
    [params |-> a,
     layers |-> [l \in Idx(a.n_layers) |-> TransformerBlock_init(l, a)],
     weights |-> 0,
     state_dict |-> "initialized",
     device |-> "cpu",
     freqs_cis |-> precompute_freqs_cis(a.dim \div a.n_heads, a.max_seq_len * 2)]

\* ------------------------------------------------------------ tensors
\* A tensor is [shape |-> <<d1, ..., dk>>, at |-> [index tuple |-> element]].
Numel(shape) == IF Len(shape) = 0 THEN 1 ELSE
    LET RECURSIVE prod(_)
        prod(k) == IF k = 0 THEN 1 ELSE prod(k - 1) * shape[k]
    IN prod(Len(shape))

RECURSIVE Indices(_)
Indices(shape) ==
    IF Len(shape) = 0 THEN {<<>>}
    ELSE {Append(p, i) : p \in Indices(SubSeq(shape, 1, Len(shape) - 1)),
                         i \in Idx(shape[Len(shape)])}

\* Row-major (C-contiguous) offset of an index, and its inverse.
RECURSIVE Ravel(_, _)
Ravel(idx, shape) ==
    IF Len(shape) = 0 THEN 0
    ELSE Ravel(SubSeq(idx, 1, Len(idx) - 1), SubSeq(shape, 1, Len(shape) - 1))
            * shape[Len(shape)] + idx[Len(idx)]

RECURSIVE Unravel(_, _)
Unravel(n, shape) ==
    IF Len(shape) = 0 THEN <<>>
    ELSE Append(Unravel(n \div shape[Len(shape)], SubSeq(shape, 1, Len(shape) - 1)),
                n % shape[Len(shape)])

Tensor(shape, f(_)) == [shape |-> shape, at |-> [i \in Indices(shape) |-> f(i)]]

\* x.reshape(shape) / x.view(shape) for a fully given shape of the same numel.
reshape(x, shape) == Tensor(shape, LAMBDA i : x.at[Unravel(Ravel(i, shape), x.shape)])

\* The size torch infers for a -1 among the other sizes `known`; Bad if none fits.
Bad == 0 - 1
InferDim(numel, known) ==
    IF known = 0 THEN Bad
    ELSE IF numel % known # 0 THEN Bad
    ELSE numel \div known

\* Broadcasting of one dimension, and of two shapes of equal rank.
Bcast(a, b) == IF a = b THEN a ELSE IF a = 1 THEN b ELSE IF b = 1 THEN a ELSE Bad
BroadcastShape(s1, s2) == [k \in 1 .. Len(s1) |-> Bcast(s1[k], s2[k])]
ShapeOk(shape) == \A k \in 1 .. Len(shape) : shape[k] >= 0
\* The index of the operand of shape `shape` that a broadcast result index reads.
BIndex(i, shape) == [k \in 1 .. Len(shape) |-> IF shape[k] = 1 THEN 0 ELSE i[k]]

\* t[start : stop] along the rows, for 0 <= start (Python clamps both ends).
slice_rows(t, start, stop) ==
    LET n == t.shape[1]
        lo == Min(start, n)
        hi == Min(Max(stop, lo), n)
    IN [shape |-> <<hi - lo, t.shape[2]>>,
        device |-> t.device,
        rows |-> lo .. (hi - 1),
        at |-> [r \in Idx(hi - lo) |-> t.at[lo + r]]]

\* tensor.to(device): same contents, now resident on device.
to(t, device) == [t EXCEPT !.device = device]

\* -------------------------------------------------------- causal mask
\* torch.full((1, 1, n, m), v), indexed by its last two axes.
full(n, m, v) == [shape |-> <<1, 1, n, m>>, at |-> [i \in Idx(n) |-> [j \in Idx(m) |-> v]]]

triu_diagonal_0(mat, diagonal) ==
    [mat EXCEPT !.at = [i \in DOMAIN mat.at |->
        [j \in DOMAIN mat.at[i] |-> IF j - i >= 0 THEN mat.at[i][j] ELSE Zero]]]

\* torch.triu: keeps the elements with j - i >= diagonal, zeroes the others.
triu(mat, diagonal) ==
    [mat EXCEPT !.at = [i \in DOMAIN mat.at |->
        [j \in DOMAIN mat.at[i] |-> IF j - i >= diagonal THEN mat.at[i][j] ELSE Zero]]]

\* ------------------------------------------------------------ attention
rotary_factor_first_row(freqs_cis, fi) == freqs_cis.at[0][fi[4]]

\* The element of freqs_cis.view(1, rows, 1, cols) at broadcast index fi.
rotary_factor(freqs_cis, fi) == freqs_cis.at[fi[2]][fi[4]]

\* One operand of apply_rotary_emb (lines 76, 80, 84, 87, 90): the last axis as
\* complex pairs (2i, 2i+1), times freqs_cis viewed as [1, rows, 1, cols] and
\* broadcast, flattened back to real pairs.
rotate_pairs(x, freqs_cis) ==
    LET c == InferDim(Numel(x.shape), x.shape[1] * x.shape[2] * x.shape[3] * 2)
        cshape == <<x.shape[1], x.shape[2], x.shape[3], c>>
        fshape == <<1, freqs_cis.shape[1], 1, freqs_cis.shape[2]>>
        oshape == BroadcastShape(cshape, fshape)
    IN IF c = Bad THEN [status |-> "error"]
       ELSE IF ~ShapeOk(oshape) THEN [status |-> "error"]
       ELSE [status |-> "ok",
             t |-> Tensor(<<oshape[1], oshape[2], oshape[3], oshape[4] * 2>>,
                     LAMBDA i :
                       LET ci == <<i[1], i[2], i[3], i[4] \div 2>>
                           xi == BIndex(ci, cshape)
                       IN [part |-> IF i[4] % 2 = 0 THEN "re" ELSE "im",
                           re |-> x.at[<<xi[1], xi[2], xi[3], 2 * xi[4]>>],
                           im |-> x.at[<<xi[1], xi[2], xi[3], 2 * xi[4] + 1>>],
                           times |-> rotary_factor(freqs_cis, BIndex(ci, fshape))])]

\* apply_rotary_emb: both operands rotated by the same freqs_cis.
apply_rotary_emb(xq, xk, freqs_cis) ==
    LET q == rotate_pairs(xq, freqs_cis)
        k == rotate_pairs(xk, freqs_cis)
    IN IF q.status = "error" \/ k.status = "error" THEN [status |-> "error"]
       ELSE [status |-> "ok", xq |-> q.t, xk |-> k.t]

repeat_kv_tiled(x, n_rep) ==
    IF n_rep = 1 THEN x
    ELSE Tensor(<<x.shape[1], x.shape[2], x.shape[3] * n_rep, x.shape[4]>>,
                LAMBDA i : x.at[<<i[1], i[2], i[3] % x.shape[3], i[4]>>])

\* repeat_kv: x[:, :, :, None, :].expand(..., n_rep, ...) reshaped to
\* [batch, seq_len, n_kv_heads * n_rep, head_dim].
repeat_kv(x, n_rep) ==
    IF n_rep = 1 THEN x
    ELSE LET batch == x.shape[1]
             seq_len == x.shape[2]
             n_kv_heads == x.shape[3]
             head_dim == x.shape[4]
             expanded == Tensor(<<batch, seq_len, n_kv_heads, n_rep, head_dim>>,
                                LAMBDA i : x.at[<<i[1], i[2], i[3], i[5]>>])
         IN reshape(expanded, <<batch, seq_len, n_kv_heads * n_rep, head_dim>>)

\* The result shape of torch.matmul on two rank-4 operands, or Bad.
matmul_shape(a, b) ==
    IF a[4] # b[3] THEN <<Bad>>
    ELSE <<Bcast(a[1], b[1]), Bcast(a[2], b[2]), a[3], b[4]>>

\* nn.Linear output viewed as [bsz, seqlen, heads, head_dim]: element (b, s, h, f)
\* is output feature h * head_dim + f of the projection at (b, s).
Projected(name, bsz, seqlen, heads, head_dim) ==
    Tensor(<<bsz, seqlen, heads, head_dim>>,
           LAMBDA i : [proj |-> name, b |-> i[1], s |-> i[2],
                       feature |-> Ravel(<<i[3], i[4]>>, <<heads, head_dim>>)])

\* Attention.forward after the rotation (lines 138-160): the shapes of the two
\* matmuls, the mask addition, the view and the output projection decide
\* whether the call raises; the result is the term over the operands.
Attention_scores(att, x, bsz, seqlen, mask, xq, xk, xv) ==
    LET tq == <<xq.shape[1], xq.shape[3], xq.shape[2], xq.shape[4]>>
        tk == <<xk.shape[1], xk.shape[3], xk.shape[2], xk.shape[4]>>
        tv == <<xv.shape[1], xv.shape[3], xv.shape[2], xv.shape[4]>>
        scores0 == matmul_shape(tq, <<tk[1], tk[2], tk[4], tk[3]>>)
        scores == IF mask = None \/ ~ShapeOk(scores0) THEN scores0
                  ELSE BroadcastShape(scores0, mask.shape)
        output == IF ShapeOk(scores) THEN matmul_shape(scores, tv) ELSE <<Bad>>
        last == IF ShapeOk(output) THEN InferDim(Numel(output), bsz * seqlen) ELSE Bad
    IN IF ~ShapeOk(scores0) THEN [status |-> "error", at |-> "scores"]
       ELSE IF ~ShapeOk(scores) THEN [status |-> "error", at |-> "mask"]
       ELSE IF ~ShapeOk(output) THEN [status |-> "error", at |-> "values"]
       ELSE IF last = Bad THEN [status |-> "error", at |-> "view"]
       ELSE IF last # att.n_heads_q * att.head_dim THEN [status |-> "error", at |-> "wo"]
       ELSE [status |-> "ok",
             term |-> [op |-> "attention", x |-> x, xq |-> xq,
                       xk |-> xk, xv |-> xv, mask |-> mask]]

\* Attention.forward up to the rotation (lines 119-132): the three projections
\* viewed per head, the rotary encoding applied to xq and xk.
Attention_qkv(att, bsz, seqlen, freqs_cis) ==
    Bind(apply_rotary_emb(Projected("wq", bsz, seqlen, att.n_heads_q, att.head_dim),
                          Projected("wk", bsz, seqlen, att.n_kv_heads, att.head_dim),
                          freqs_cis),
         LAMBDA rot :
           IF rot.status = "error" THEN rot
           ELSE [status |-> "ok", xq |-> rot.xq, xk |-> rot.xk,
                 xv |-> Projected("wv", bsz, seqlen, att.n_kv_heads, att.head_dim)])

Attention_forward_kv_cached(att, x, bsz, seqlen, freqs_cis, mask) ==
    Bind(Attention_qkv(att, bsz, seqlen, freqs_cis),
         LAMBDA qkv :
           IF qkv.status = "error" THEN [status |-> "error", at |-> "apply_rotary_emb"]
           ELSE Bind(<<repeat_kv(qkv.xk, att.n_rep), repeat_kv(qkv.xv, att.n_rep)>>,
                     LAMBDA kv : Attention_scores(
                                    att,
                                    [x |-> x,
                                     cache |-> IF out = None THEN <<>> ELSE out.tokens],
                                    bsz, seqlen, mask, qkv.xq, kv[1], kv[2])))

\* Attention.forward on x of shape [bsz, seqlen, dim]; x itself is the term `x`.
Attention_forward(att, x, bsz, seqlen, freqs_cis, mask) ==
    Bind(Attention_qkv(att, bsz, seqlen, freqs_cis),
         LAMBDA qkv :
           IF qkv.status = "error" THEN [status |-> "error", at |-> "apply_rotary_emb"]
           ELSE Bind(<<repeat_kv(qkv.xk, att.n_rep), repeat_kv(qkv.xv, att.n_rep)>>,
                     LAMBDA kv : Attention_scores(att, x, bsz, seqlen, mask,
                                                  qkv.xq, kv[1], kv[2])))

\* TransformerBlock.forward: h = x + attention(norm(x)); out = h + ffn(norm(h)).
TransformerBlock_forward(blk, x, bsz, seqlen, freqs_cis, mask) ==
    Bind(Attention_forward(blk.attention, [op |-> "attention_norm", x |-> x],
                           bsz, seqlen, freqs_cis, mask),
         LAMBDA a :
           IF a.status = "error" THEN a
           ELSE [status |-> "ok",
                 term |-> [op |-> "block", layer |-> blk.layer_id, x |-> x,
                           attn |-> a.term]])

Transformer_forward_table_sliced(mdl, tokens, start_pos) ==
    slice_rows(to(mdl.freqs_cis, mdl.device), start_pos, start_pos + Len(tokens[1]))

\* self.freqs_cis as Transformer.forward reassigns it (line 221).
Transformer_forward_table(mdl, tokens, start_pos) == to(mdl.freqs_cis, mdl.device)

\* The layer loop of Transformer.forward (lines 230-231) over the first n layers.
RECURSIVE run_layers(_, _, _, _, _, _, _)
run_layers(mdl, n, h0, bsz, seqlen, freqs_cis, mask) ==
    IF n = 0 THEN [status |-> "ok", term |-> h0]
    ELSE Bind(run_layers(mdl, n - 1, h0, bsz, seqlen, freqs_cis, mask),
              LAMBDA prev :
                IF prev.status = "error" THEN prev
                ELSE TransformerBlock_forward(mdl.layers[n - 1], prev.term,
                                              bsz, seqlen, freqs_cis, mask))

\* Transformer.forward(tokens, start_pos): `self` is the instance afterwards,
\* `result` what the call returned or that it raised, with the mask it built
\* and the rotary rows it read.
Transformer_forward(mdl, tokens, start_pos) ==
    LET bsz == Len(tokens)
        seqlen == Len(tokens[1])
        h0 == [op |-> "tok_embeddings", tokens |-> tokens]
    IN Bind(<<Transformer_forward_table(mdl, tokens, start_pos),
              IF seqlen > 1 THEN triu(full(seqlen, seqlen, NegInf), 1) ELSE None>>,
         LAMBDA tm :
         Bind(slice_rows(tm[1], start_pos, start_pos + seqlen),
           LAMBDA freqs_cis :
           Bind(run_layers(mdl, mdl.params.n_layers, h0, bsz, seqlen, freqs_cis, tm[2]),
             LAMBDA h :
               [self |-> [mdl EXCEPT !.freqs_cis = tm[1]],
                result |->
                  [tokens |-> tokens, start_pos |-> start_pos, seqlen |-> seqlen,
                   weights |-> mdl.weights,
                   status |-> h.status,
                   logits |-> IF h.status = "ok"
                              THEN [op |-> "output", weights |-> mdl.weights,
                                    h |-> [op |-> "norm", x |-> h.term]]
                              ELSE None,
                   mask |-> tm[2], rows |-> freqs_cis.rows,
                   freqs_cis |-> freqs_cis.at]])))

\* ---------------------------------------------------- data preparation
\* The label value the loss ignores (line 270; CrossEntropyLoss(ignore_index) line 401).
IgnoreIndex == -100

\* A tensor over shared storage: heap[storage] is the flat row-major data.
clone_aliasing(heap, t, name) == [heap |-> heap, t |-> t]

\* t.clone(): the same shape over a fresh copy of the data.
clone(heap, t, name) ==
    [heap |-> [s \in DOMAIN heap \cup {name} |->
                 IF s = name THEN heap[t.storage] ELSE heap[s]],
     t |-> [t EXCEPT !.storage = name]]

\* t.tolist() of a [rows, cols] tensor.
tolist(heap, t) ==
    [c \in Idx(t.shape[1]) |->
        [i \in Idx(t.shape[2]) |-> heap[t.storage][Ravel(<<c, i>>, t.shape)]]]

\* tokenizer.eos_token.join(texts) and its tokenization (lines 254-258): the
\* ids of the texts in order, the end-of-sequence id between consecutive texts.
RECURSIVE join_and_tokenize(_)
join_and_tokenize(texts) ==
    IF Len(texts) = 0 THEN <<>>
    ELSE IF Len(texts) = 1 THEN texts[1]
    ELSE texts[1] \o <<eos_token_id>> \o join_and_tokenize(Tail(texts))

\* tokenize_function on one batch of rows, examples["text"] (lines 252-272).
tokenize_function(examples, max_length) ==
    LET stream == join_and_tokenize(examples)
        total_length == (Len(stream) \div max_length) * max_length
        input_ids == [storage |-> "input_ids",
                      shape |-> <<InferDim(total_length, max_length), max_length>>]
        heap0 == [s \in {"input_ids"} |-> [k \in Idx(total_length) |-> stream[k + 1]]]
        cl == clone(heap0, input_ids, "labels")
        labels == cl.t
        \* labels[:, :-1] = input_ids[:, 1:]
        heap1 == [cl.heap EXCEPT ![labels.storage] =
                    [k \in DOMAIN @ |->
                       IF k % max_length < max_length - 1
                       THEN cl.heap[input_ids.storage][k + 1] ELSE @[k]]]
        \* labels[:, -1] = -100
        heap2 == [heap1 EXCEPT ![labels.storage] =
                    [k \in DOMAIN @ |->
                       IF k % max_length = max_length - 1 THEN IgnoreIndex ELSE @[k]]]
    IN [input_ids |-> tolist(heap2, input_ids), labels |-> tolist(heap2, labels)]

\* a + b on Python lists (0-based).
extend(a, b) ==
    LET na == Cardinality(DOMAIN a)
    IN [i \in Idx(na + Cardinality(DOMAIN b)) |-> IF i < na THEN a[i] ELSE b[i - na]]

\* The rows of text dataset.map hands to its function in call number b (from 0).
map_batch(rows, batch_size, b) ==
    SubSeq(rows, b * batch_size + 1, Min((b + 1) * batch_size, Len(rows)))

\* dataset.map(tokenize_function, batched=True, remove_columns=...) (lines
\* 274-278): one call per batch of consecutive rows, the returned columns
\* concatenated in batch order. n is the number of batches mapped so far.
RECURSIVE dataset_map(_, _, _, _)
dataset_map(rows, batch_size, max_length, n) ==
    IF n = 0 THEN [input_ids |-> <<>>, labels |-> <<>>]
    ELSE LET done == dataset_map(rows, batch_size, max_length, n - 1)
             r == tokenize_function(map_batch(rows, batch_size, n - 1), max_length)
         IN [input_ids |-> extend(done.input_ids, r.input_ids),
             labels |-> extend(done.labels, r.labels)]

\* load_and_preprocess_data from the loaded rows on (lines 248-280).
load_and_preprocess_data(rows, batch_size, max_length) ==
    dataset_map(rows, batch_size, max_length, (Len(rows) + batch_size - 1) \div batch_size)

\* ------------------------------------------------- library-call inputs
\* repeat_kv inputs: a [batch, seq_len, n_kv_heads, head_dim] tensor whose
\* elements are all distinct, and n_rep.
RepeatKVInputs ==
    {[x |-> Tensor(<<b, n, h, d>>, LAMBDA i : i), n_rep |-> r] :
        b \in {1, 2}, n \in 1 .. MaxSeq, h \in 1 .. MaxHeads, d \in {1, 2},
        r \in 1 .. MaxRep}

\* Corpora (rows of text, each given by its token ids), the number of rows
\* dataset.map puts in a batch, and chunk lengths.
Docs == UNION {[1 .. n -> Vocab] : n \in 0 .. MaxDocLen}
DataInputs ==
    {[rows |-> t, batch_size |-> b, max_length |-> l] :
        t \in UNION {[1 .. n -> Docs] : n \in 1 .. MaxDocs},
        b \in 1 .. MaxBatchSize, l \in 1 .. MaxChunk}

\* Models and forward-call shapes for the rotary encoding inside attention.
RopeArgs == ArgsOf({4}, {1, 2}, {<<1>>}, {None}, {2}, 1 .. MaxSeqLenArg, 1 .. MaxLayers)
RopeInputs ==
    {[bsz |-> b, seqlen |-> n, start_pos |-> p] :
        b \in {1, 2}, n \in 1 .. MaxSeq, p \in 0 .. MaxStartPos}

\* --------------------------------------------------------------- actions
Construct(S) ==
    /\ ctor = "none"
    /\ \E a \in S :
          LET r == ModelArgs_post_init(a)
          IN /\ ctor' = r.status
             /\ args' = r.self
             /\ call' = a
    /\ UNCHANGED <<model, out, ref, gen, ret>>

\* Transformer(args).to(device); the rotary table is a plain attribute and stays
\* where precompute_freqs_cis made it until the first forward call.
Build(D) ==
    /\ ctor = "ok"
    /\ model = None
    /\ \E d \in D : model' = [Transformer_init(args) EXCEPT !.device = d]
    /\ UNCHANGED <<args, ctor, out, ref, gen, call, ret>>

\* model(tokens, start_pos): one call of Transformer.forward. With `remember`
\* the call may be kept in ref for later comparison.
ForwardCall(T, P, remember) ==
    /\ model # None
    /\ \E tokens \in T, start_pos \in P :
          LET r == Transformer_forward(model, tokens, start_pos)
          IN /\ out' = r.result
             /\ model' = r.self
             /\ ref' \in IF remember THEN {ref, r.result} ELSE {ref}
    /\ UNCHANGED <<args, ctor, gen, call, ret>>

\* One iteration of train_epoch: forward at start_pos 0, loss, backward,
\* optimizer.step(). A forward that raises ends the epoch before the update.
TrainStep(T) ==
    /\ model # None
    /\ model.weights < MaxTrainSteps
    /\ \E tokens \in T :
          LET r == Transformer_forward(model, tokens, 0)
          IN /\ out' = r.result
             /\ model' = [r.self EXCEPT !.weights = IF r.result.status = "ok" THEN @ + 1 ELSE @]
    /\ UNCHANGED <<args, ctor, ref, gen, call, ret>>

\* model.load_state_dict(torch.load(path)) in main's generate branch (lines
\* 426-428): every weight of the freshly built model is replaced by the
\* checkpoint's, the weights a training run saved after its optimizer steps
\* (line 416; train_epoch returns only after at least one batch).
LoadStateDict ==
    /\ model # None
    /\ model.state_dict = "initialized"
    /\ gen = None
    /\ \E w \in 1 .. MaxTrainSteps :
          model' = [model EXCEPT !.weights = w, !.state_dict = "loaded"]
    /\ UNCHANGED <<args, ctor, out, ref, gen, call, ret>>

generate_call_incremental(input_ids) ==
    [tokens |-> <<IF Len(input_ids) = 0 THEN <<>> ELSE <<input_ids[Len(input_ids)]>>>>,
     start_pos |-> Max(Len(input_ids) - 1, 0)]

\* The arguments of the forward call in generate_text_greedy's loop (line 345).
generate_call(input_ids) == [tokens |-> <<input_ids>>, start_pos |-> 0]

\* generate_text_greedy up to its loop: the encoded prompt, no call made yet.
GenStart ==
    /\ model # None
    /\ model.state_dict = "loaded"
    /\ gen = None
    /\ \E prompt \in Prompts, max_length \in 0 .. MaxGenLength :
          gen' = [pc |-> IF max_length = 0 THEN "done" ELSE "loop",
                  prompt |-> prompt, input_ids |-> prompt,
                  max_length |-> max_length, calls |-> 0]
    /\ UNCHANGED <<args, ctor, model, out, ref, call, ret>>

\* One iteration of the loop (lines 344-351): the forward call, the argmax of
\* the last position (some token id, decided by the weights), the append, and
\* the break on the end-of-sequence id. A forward call that raises ends
\* generate_text_greedy with that exception.
GenStep ==
    /\ gen # None
    /\ gen.pc = "loop"
    /\ LET c == generate_call(gen.input_ids)
           r == Transformer_forward(model, c.tokens, c.start_pos)
       IN /\ out' = r.result
          /\ model' = r.self
          /\ IF r.result.status = "error"
             THEN gen' = [gen EXCEPT !.pc = "raised", !.calls = @ + 1]
             ELSE \E next_token \in Vocab :
                    gen' = [gen EXCEPT
                              !.input_ids = Append(@, next_token),
                              !.calls = @ + 1,
                              !.pc = IF next_token = eos_token_id
                                        \/ gen.calls + 1 = gen.max_length
                                     THEN "done" ELSE "loop"]
    /\ UNCHANGED <<args, ctor, ref, call, ret>>

\* repeat_kv(x, n_rep) on the drawn input.
CallRepeatKV ==
    /\ ret = None
    /\ ret' = repeat_kv(call.x, call.n_rep)
    /\ UNCHANGED <<args, ctor, model, out, ref, gen, call>>

\* load_and_preprocess_data on the drawn corpus.
CallLoadAndPreprocess ==
    /\ ret = None
    /\ ret' = load_and_preprocess_data(call.rows, call.batch_size, call.max_length)
    /\ UNCHANGED <<args, ctor, model, out, ref, gen, call>>

\* The rotary slice of one Transformer.forward call (line 222) handed to the
\* attention of every block (line 231): what each block's xq, xk, xv become.
CallAttention ==
    /\ ret = None
    /\ LET freqs_cis == slice_rows(model.freqs_cis, call.start_pos,
                                   call.start_pos + call.seqlen)
       IN ret' = [rows |-> freqs_cis.rows,
                  blocks |-> [l \in DOMAIN model.layers |->
                                Attention_qkv(model.layers[l].attention, call.bsz,
                                              call.seqlen, freqs_cis)]]
    /\ UNCHANGED <<args, ctor, model, out, ref, gen, call>>

InitProgram ==
    /\ args = None
    /\ ctor = "none"
    /\ model = None
    /\ out = None
    /\ ref = None
    /\ gen = None
    /\ call = None
    /\ ret = None

\* Configuration and construction over the whole argument space, with one
\* forward call as the later operation.
NextConfig ==
    \/ Construct(AllArgs)
    \/ Build({"cpu"})
    \/ ForwardCall(ProbeTokens, {0}, FALSE)

SpecConfig == InitProgram /\ [][NextConfig]_vars

\* The program: construction, then forward calls and training steps.
Next ==
    \/ Construct(RunArgs)
    \/ Build({"cuda"})
    \/ ForwardCall(TokenInputs, 0 .. MaxStartPos, FALSE)
    \/ TrainStep(TokenInputs)

Spec == InitProgram /\ [][Next]_vars

\* Repeated forward calls on one model, any of them remembered.
NextDet ==
    \/ Construct(DetArgs)
    \/ Build({"cuda"})
    \/ ForwardCall(DetTokens, DetStartPos, TRUE)
    \/ TrainStep(DetTokens)

SpecDet == InitProgram /\ [][NextDet]_vars

\* main's generate branch: the model built and loaded from the checkpoint,
\* then greedy generation.
NextGen ==
    \/ Construct(GenArgs)
    \/ Build({"cuda"})
    \/ LoadStateDict
    \/ GenStart
    \/ GenStep

SpecGen == InitProgram /\ [][NextGen]_vars

\* A library function applied to an input drawn at the start.
InitCall(S) ==
    /\ args = None
    /\ ctor = "none"
    /\ model = None
    /\ out = None
    /\ ref = None
    /\ gen = None
    /\ call \in S
    /\ ret = None

SpecRepeatKV == InitCall(RepeatKVInputs) /\ [][CallRepeatKV]_vars

SpecData == InitCall(DataInputs) /\ [][CallLoadAndPreprocess]_vars

\* A constructed model and the shape of one forward call.
InitRope ==
    /\ \E a \in RopeArgs :
          /\ args = ModelArgs_post_init(a).self
          /\ model = Transformer_init(ModelArgs_post_init(a).self)
    /\ ctor = "ok"
    /\ out = None
    /\ ref = None
    /\ gen = None
    /\ call \in RopeInputs
    /\ ret = None

SpecRope == InitRope /\ [][CallAttention]_vars

\* ----------------------------------------------------------------- claims
\* The keyword arguments of the ModelArgs call, with n_kv_heads defaulted.
KwKvHeads == IF call.n_kv_heads = NoInt THEN call.n_heads ELSE call.n_kv_heads[1]
BadDivisibility == call.dim % call.n_heads # 0 \/ call.n_heads % KwKvHeads # 0

\* C1: a ModelArgs whose dim is not divisible by n_heads, or whose n_heads is not
\* divisible by n_kv_heads, fails at construction: no instance exists, so no
\* Transformer is built and no forward pass runs.
C1_ConfigurationErrorAtConstruction ==
    (ctor # "none" /\ BadDivisibility) => (ctor = "error" /\ model = None /\ out = None)

\* C2: a forward call with start_pos + seq_len beyond the 2 * max_seq_len rotary
\* positions raises; it never returns logits.
C2_ExceedingTheTableRaises ==
    (out # None /\ out.start_pos + out.seqlen > 2 * args.max_seq_len)
        => (out.status = "error" /\ out.logits = None)

\* C3: forward builds a mask exactly when seq_len > 1, and the mask is -inf
\* strictly above the diagonal and 0 on and below it, so every row has a 0.
C3_CausalMask ==
    out # None =>
        /\ (out.mask # None) <=> (out.seqlen > 1)
        /\ out.seqlen >= 2 =>
              /\ out.mask.shape = <<1, 1, out.seqlen, out.seqlen>>
              /\ DOMAIN out.mask.at = Idx(out.seqlen)
              /\ \A i \in Idx(out.seqlen) :
                    /\ DOMAIN out.mask.at[i] = Idx(out.seqlen)
                    /\ \A j \in Idx(out.seqlen) :
                          out.mask.at[i][j] = IF i < j THEN NegInf ELSE Zero
                    /\ \E j \in Idx(out.seqlen) : out.mask.at[i][j] = Zero

C3_Witness ==
    /\ out # None
    /\ out.status = "ok"
    /\ out.seqlen = MaxSeq
    /\ out.mask.at[0][1] = NegInf
    /\ out.mask.at[1][0] = Zero

\* C5: with the weights unchanged, two forward calls with the same tokens and
\* the same start_pos return the same logits (or fail alike) whatever calls ran
\* before or between them; and start_pos matters only through the rotary rows
\* selected: the same tokens with the same selected rows give the same logits.
C5_ForwardIsAFunctionOfItsInputs ==
    (ref # None /\ out # None /\ ref.tokens = out.tokens /\ ref.weights = out.weights) =>
        /\ ref.start_pos = out.start_pos =>
              (ref.status = out.status /\ ref.logits = out.logits)
        /\ ref.freqs_cis = out.freqs_cis =>
              (ref.status = out.status /\ ref.logits = out.logits)

C5_Witness ==
    /\ ref # None
    /\ out # None
    /\ ref.status = "ok"
    /\ ref.tokens = out.tokens
    /\ ref.start_pos = out.start_pos
    /\ ref.weights = out.weights
    /\ model.weights > 0
    /\ ref.logits = out.logits

\* The least multiple of k that is >= n.
LeastMultipleAtLeast(n, k) ==
    CHOOSE m \in n .. (n + k) : m % k = 0 /\ \A j \in n .. (m - 1) : j % k # 0

KwMultiplier ==
    IF call.ffn_dim_multiplier = None THEN [num |-> 4, den |-> 3]
    ELSE call.ffn_dim_multiplier
ExpectedIntermediate ==
    LeastMultipleAtLeast((2 * KwMultiplier.num * call.dim) \div KwMultiplier.den,
                         call.multiple_of)

\* C8: intermediate_size is the least multiple of multiple_of that is
\* >= floor(2 * ffn_dim_multiplier * dim), from construction on; every block's
\* W1/W3 width is the least multiple of multiple_of >= floor(2 * intermediate_size / 3).
C8_FeedForwardWidth ==
    /\ ctor = "ok" => args.intermediate_size = ExpectedIntermediate
    /\ model # None =>
          \A l \in DOMAIN model.layers :
              model.layers[l].w13_width =
                  LeastMultipleAtLeast((2 * ExpectedIntermediate) \div 3, call.multiple_of)

C8_Witness ==
    /\ model # None
    /\ out # None
    /\ (2 * KwMultiplier.num * call.dim) % KwMultiplier.den # 0
    /\ args.intermediate_size % call.multiple_of = 0
    /\ args.intermediate_size > (2 * KwMultiplier.num * call.dim) \div KwMultiplier.den
    /\ model.layers[0].w13_width > (2 * args.intermediate_size) \div 3
    /\ model.layers[0].w13_width < args.intermediate_size

\* C9: forward calls never change the rotary table: it keeps 2 * max_seq_len
\* rows, head_dim / 2 columns and the values it was built with; a call reads
\* only rows within [start_pos, start_pos + seq_len).
C9_RotaryTableReadOnly ==
    model # None =>
        LET head_dim == args.dim \div args.n_heads
        IN /\ model.freqs_cis.shape[1] = 2 * args.max_seq_len
           /\ 2 * model.freqs_cis.shape[2] = head_dim
           /\ DOMAIN model.freqs_cis.at = Idx(2 * args.max_seq_len)
           /\ model.freqs_cis.at = precompute_freqs_cis(head_dim, 2 * args.max_seq_len).at
           /\ out # None =>
                 out.rows \subseteq out.start_pos .. (out.start_pos + out.seqlen - 1)

C9_Witness ==
    /\ model # None
    /\ out # None
    /\ out.status = "ok"
    /\ out.start_pos > 0
    /\ out.rows = out.start_pos .. (out.start_pos + out.seqlen - 1)
    /\ model.freqs_cis.device = "cuda"
    /\ model.weights > 0

\* The tokens generate_text_greedy appended so far.
Appended == SubSeq(gen.input_ids, Len(gen.prompt) + 1, Len(gen.input_ids))
NoEosBefore(n) == \A k \in 1 .. n : Appended[k] # eos_token_id
StoppedByEos ==
    /\ Len(Appended) > 0
    /\ Appended[Len(Appended)] = eos_token_id
    /\ NoEosBefore(Len(Appended) - 1)
StoppedByLength == Len(Appended) = gen.max_length /\ NoEosBefore(Len(Appended))

\* C6 as stated: every call appends exactly one token, and the loop stops right
\* after the first end-of-sequence token or after max_length appended tokens.
C6_EveryCallAppends ==
    gen # None =>
        /\ gen.calls = Len(Appended)
        /\ gen.pc # "loop" => (StoppedByEos \/ StoppedByLength)

C6_Safety ==
    gen # None =>
        /\ gen.calls <= gen.max_length
        /\ gen.calls > 0 =>
              /\ out.start_pos = 0
              /\ out.tokens =
                    <<IF gen.pc = "raised" THEN gen.input_ids
                      ELSE SubSeq(gen.input_ids, 1, Len(gen.input_ids) - 1)>>
        /\ gen.pc = "raised" =>
              /\ out.status = "error"
              /\ gen.calls = Len(Appended) + 1
              /\ NoEosBefore(Len(Appended))
              /\ \/ Len(gen.input_ids) = 0
                 \/ Len(gen.input_ids) > 2 * args.max_seq_len
        /\ gen.pc # "raised" =>
              /\ gen.calls = Len(Appended)
              /\ gen.calls > 0 => Len(gen.input_ids) - 1 \in 1 .. 2 * args.max_seq_len
        /\ gen.pc = "loop" => (Len(Appended) < gen.max_length /\ NoEosBefore(Len(Appended)))
        /\ gen.pc = "done" => (StoppedByEos \/ StoppedByLength)

\* C6 (amended): generate_text_greedy always terminates: every iteration makes
\* one forward call and it makes at most max_length of them, each with
\* start_pos 0 and the whole current sequence; each call that returns appends
\* exactly one token; the loop stops right after the first end-of-sequence
\* token, or after max_length appended tokens, or at the first forward call
\* that raises, with nothing appended by it; a call raises exactly when the
\* current sequence is empty (the prompt encoded to no token) or longer than
\* the 2 * max_seq_len rotary rows.
C6_GenerationTerminates ==
    /\ []C6_Safety
    /\ [][(gen # None /\ gen' # gen) =>
            /\ gen.pc = "loop"
            /\ gen'.calls = gen.calls + 1
            /\ gen'.max_length = gen.max_length
            /\ gen'.prompt = gen.prompt]_vars

C6_Witness ==
    /\ gen # None
    /\ gen.pc = "raised"
    /\ Len(Appended) > 0
    /\ gen.calls = Len(Appended) + 1
    /\ gen.calls <= gen.max_length

\* C4: repeat_kv returns n_kv_heads * n_rep heads, output head h being input
\* kv-head floor(h / n_rep) at every batch index, position and feature; with
\* n_rep = 1 the output is the input.
C4_RepeatKVContiguous ==
    ret # None =>
        LET sh == call.x.shape
            osh == <<sh[1], sh[2], sh[3] * call.n_rep, sh[4]>>
        IN /\ ret.shape = osh
           /\ DOMAIN ret.at = Indices(osh)
           /\ \A i \in Indices(osh) :
                 ret.at[i] = call.x.at[<<i[1], i[2], i[3] \div call.n_rep, i[4]>>]
           /\ call.n_rep = 1 => ret = call.x

C4_Witness ==
    /\ ret # None
    /\ call.n_rep = 3
    /\ call.x.shape[3] = 3
    /\ ret.shape[3] = 9
    /\ ret.at[<<0, 0, 7, 0>>] = call.x.at[<<0, 0, 2, 0>>]
    /\ ret.at[<<0, 0, 7, 0>>] # call.x.at[<<0, 0, 1, 0>>]

\* The batches dataset.map makes of the corpus, the token stream
\* tokenize_function forms of batch b, and the chunks the batches before b gave.
NumBatches == (Len(call.rows) + call.batch_size - 1) \div call.batch_size
BatchStream(b) == join_and_tokenize(map_batch(call.rows, call.batch_size, b))
RECURSIVE ChunksBefore(_)
ChunksBefore(b) ==
    IF b = 0 THEN 0
    ELSE ChunksBefore(b - 1) + (Len(BatchStream(b - 1)) \div call.max_length)

\* C7: every token stream data preparation forms (one per batch of rows, of
\* length T) gives, for chunk length L, floor(T / L) chunks of length L,
\* chunk c holding tokens [c*L, (c+1)*L) of the stream in order, the trailing
\* T mod L tokens dropped; labels[c][i] = input_ids[c][i+1] for i < L-1 and
\* labels[c][L-1] = -100; building the labels leaves input_ids as chunked.
\* The dataset is the chunks of the streams, in batch order.
C7_ChunksAndShiftedLabels ==
    ret # None =>
        LET L == call.max_length
        IN /\ DOMAIN ret.input_ids = Idx(ChunksBefore(NumBatches))
           /\ DOMAIN ret.labels = Idx(ChunksBefore(NumBatches))
           /\ \A b \in Idx(NumBatches) :
                 LET stream == BatchStream(b)
                     T == Len(stream)
                     first == ChunksBefore(b)
                 IN /\ ChunksBefore(b + 1) = first + (T \div L)
                    /\ \A c \in Idx(T \div L) :
                          /\ DOMAIN ret.input_ids[first + c] = Idx(L)
                          /\ DOMAIN ret.labels[first + c] = Idx(L)
                          /\ \A i \in Idx(L) :
                                ret.input_ids[first + c][i] = stream[c * L + i + 1]
                          /\ \A i \in Idx(L - 1) :
                                ret.labels[first + c][i] = ret.input_ids[first + c][i + 1]
                          /\ ret.labels[first + c][L - 1] = IgnoreIndex

C7_Witness ==
    /\ ret # None
    /\ Len(call.rows) = 2
    /\ call.batch_size = 1
    /\ call.max_length = 2
    /\ Len(call.rows[1]) = 2
    /\ Len(call.rows[2]) = 2
    /\ DOMAIN ret.labels = {0, 1}
    /\ ret.input_ids[1][0] = call.rows[2][1]
    /\ ret.labels[1][0] = call.rows[2][2]
    /\ ret.labels[1][1] = IgnoreIndex
    /\ call.rows[2][1] # call.rows[2][2]

\* The element of a projection that Attention.forward views at (b, s, h, f).
ProjectionAt(name, b, s, h, f, head_dim) ==
    [proj |-> name, b |-> b, s |-> s, feature |-> h * head_dim + f]

\* C10: in a call within the table, in every block, complex pair i of the query
\* and of the key at batch b, position s, head h is multiplied by table entry
\* [start_pos + s][i], whatever b and h; the value tensor is not rotated.
C10_RotaryAppliedToQueryAndKey ==
    (ret # None /\ call.start_pos + call.seqlen <= 2 * args.max_seq_len) =>
        LET head_dim == args.dim \div args.n_heads
            Entry(s, i) == [abs |-> 1, pos |-> call.start_pos + s,
                            exp_num |-> 2 * i, exp_den |-> head_dim]
            Rotated(name, t, heads) ==
                /\ t.shape = <<call.bsz, call.seqlen, heads, head_dim>>
                /\ \A b \in Idx(call.bsz), s \in Idx(call.seqlen), h \in Idx(heads),
                      i \in Idx(head_dim \div 2) :
                      LET re == ProjectionAt(name, b, s, h, 2 * i, head_dim)
                          im == ProjectionAt(name, b, s, h, 2 * i + 1, head_dim)
                      IN /\ t.at[<<b, s, h, 2 * i>>] =
                               [part |-> "re", re |-> re, im |-> im, times |-> Entry(s, i)]
                         /\ t.at[<<b, s, h, 2 * i + 1>>] =
                               [part |-> "im", re |-> re, im |-> im, times |-> Entry(s, i)]
        IN \A l \in Idx(args.n_layers) :
              /\ ret.blocks[l].status = "ok"
              /\ Rotated("wq", ret.blocks[l].xq, args.n_heads)
              /\ Rotated("wk", ret.blocks[l].xk, args.n_kv_heads)
              /\ ret.blocks[l].xv.shape = <<call.bsz, call.seqlen, args.n_kv_heads, head_dim>>
              /\ \A b \in Idx(call.bsz), s \in Idx(call.seqlen),
                    h \in Idx(args.n_kv_heads), f \in Idx(head_dim) :
                    ret.blocks[l].xv.at[<<b, s, h, f>>] = ProjectionAt("wv", b, s, h, f, head_dim)

C10_Witness ==
    /\ ret # None
    /\ call.bsz = 2
    /\ call.seqlen = 2
    /\ call.start_pos = 2
    /\ args.n_heads = 2
    /\ args.n_layers = 2
    /\ args.max_seq_len = 2
    /\ ret.blocks[1].status = "ok"
    /\ ret.blocks[1].xq.at[<<1, 1, 1, 0>>].times.pos = 3
    /\ ret.blocks[1].xk.at[<<1, 1, 0, 1>>].times.pos = 3

====
